---- MODULE Spec2Model ----
(***************************************************************************)
(* Model of scripts/fetch_legislation.py: the OpenStates search client     *)
(* (fetch_ai_legislation_comprehensive), the relevance filter              *)
(* (is_ai_related), the status classifier (get_bill_status_category) and   *)
(* the processing pipeline (process_legislation_data).                     *)
(*                                                                         *)
(* Python strings are modelled as sequences of one-character strings, so   *)
(* that lower-casing, concatenation, substring tests and comparisons are   *)
(* computed character by character as the interpreter computes them.       *)
(***************************************************************************)
EXTENDS Integers, Sequences, FiniteSets, TLC

VARIABLES
    \* fetch_ai_legislation_comprehensive
    api_key,        \* os.environ.get('OPENSTATES_API_KEY') is set
    fpc,            \* position in the function
    term_idx,       \* index into search_terms of the for loop
    page,           \* the page counter of the pagination loop
    data,           \* the JSON body of the latest successful response
    all_bills,      \* the accumulator that is returned
    responses,      \* status codes received for term resp_term, in order
    resp_term,      \* the term the latest request was issued for (0: none yet)
    last_event,     \* the latest I/O call: "none", "request" or "sleep"
    \* process_legislation_data
    ppc,            \* position in the function
    bills,          \* what the fetch returned
    bidx,           \* index of the for loop over bills
    seen_bills,     \* set of bill keys
    processed_data, \* list of processed rows
    filtered_count, \* number of bills rejected by is_ai_related
    files,          \* the CSV files written: path -> [header, rows]
    \* direct calls of the two classification functions
    call            \* the arguments of one call and, once made, its result

fetchVars == <<api_key, fpc, term_idx, page, data, all_bills, responses, resp_term, last_event>>
procVars == <<ppc, bills, bidx, seen_bills, processed_data, filtered_count, files>>
vars == <<fetchVars, procVars, call>>

----------------------------------------------------------------------------
(* Bounds of the model *)

\* number of search terms in the configured list
NumTerms == 2
\* length of the raw record list handed to the processing loop
MaxBills == 3
\* words in a title passed to is_ai_related
MaxTitleWords == 2
\* words in an abstract passed to is_ai_related
MaxAbstractWords == 1
\* words in the first action's description
MaxDescWords == 2
\* actions after the first one
MaxLaterActions == 1

----------------------------------------------------------------------------
(* Strings *)

Upper == <<"A","B","C","D","E","F","G","H","I","J","K","L","M","N","O","P","Q","R","S","T","U","V","W","X","Y","Z">>
Lowercase == <<"a","b","c","d","e","f","g","h","i","j","k","l","m","n","o","p","q","r","s","t","u","v","w","x","y","z">>
Digits == <<"0","1","2","3","4","5","6","7","8","9">>
\* the characters used, in code point order
CodePoints == <<" ","+","-",".",":">> \o Digits \o Upper \o <<"_">> \o Lowercase

IndexIn(c, s) == CHOOSE i \in 1..Len(s) : s[i] = c

Ord(c) == IndexIn(c, CodePoints)

IsDigit(c) == \E i \in 1..Len(Digits) : Digits[i] = c

DigitVal(c) == IndexIn(c, Digits) - 1

LowerChar(c) == IF \E i \in 1..Len(Upper) : Upper[i] = c THEN Lowercase[IndexIn(c, Upper)] ELSE c

\* str.lower()
Lower(s) == [i \in 1..Len(s) |-> LowerChar(s[i])]

\* kw in text
Contains(text, kw) == \E i \in 0..(Len(text) - Len(kw)) : SubSeq(text, i + 1, i + Len(kw)) = kw

\* any(term in text for term in terms)
AnyIn(text, terms) == \E i \in 1..Len(terms) : Contains(text, terms[i])

\* a < b on str
StrLess(a, b) ==
    \E i \in 1..(Len(a) + 1) :
        /\ i <= Len(b)
        /\ \A j \in 1..(i - 1) : a[j] = b[j]
        /\ (i = Len(a) + 1 \/ Ord(a[i]) < Ord(b[i]))

RECURSIVE Replace(_, _, _)
\* s.replace(c, by) for a one-character c
Replace(s, c, by) ==
    IF s = <<>> THEN <<>>
    ELSE (IF Head(s) = c THEN by ELSE <<Head(s)>>) \o Replace(Tail(s), c, by)

IsPrefix(s, t) == Len(s) <= Len(t) /\ SubSeq(t, 1, Len(s)) = s

Last(s) == s[Len(s)]

----------------------------------------------------------------------------
(* fetch_ai_legislation_comprehensive *)

\* search_terms, by position in the list
search_terms == [i \in 1..NumTerms |-> i]

\* `page < 5`
PageLimit == 5

\* a response's status code: 200, or an error status that makes
\* raise_for_status raise HTTPError; 0 stands for a request that got no
\* response at all (ConnectionError, Timeout)
ErrorStatuses == {0, 422, 429, 500}

\* one raw record of the upstream API, as the client sees it: opaque
RawRecord(t, p) == <<t, p>>

\* the JSON bodies a successful request for page p of term t may return
Bodies(t, p) ==
    {[results_key |-> FALSE, results |-> <<>>, next |-> n] : n \in BOOLEAN}
    \cup {[results_key |-> TRUE, results |-> r, next |-> n] :
             r \in {<<>>, <<RawRecord(t, p)>>}, n \in BOOLEAN}

NoData == [results_key |-> FALSE, results |-> <<>>, next |-> FALSE]

FetchInit ==
    /\ api_key \in BOOLEAN
    /\ fpc = "start"
    /\ term_idx = 1
    /\ page = 0
    /\ data = NoData
    /\ all_bills = <<>>
    /\ responses = <<>>
    /\ resp_term = 0
    /\ last_event = "none"

\* the API key is present: enter the loop over the search terms
CheckApiKey ==
    /\ fpc = "start"
    /\ api_key
    /\ fpc' = "loop"
    /\ UNCHANGED <<api_key, term_idx, page, data, all_bills, responses, resp_term, last_event>>
    /\ UNCHANGED <<procVars, call>>

\* the API key is missing: ValueError, before any request
MissingApiKey ==
    /\ fpc = "start"
    /\ ~api_key
    /\ fpc' = "raised"
    /\ UNCHANGED <<api_key, term_idx, page, data, all_bills, responses, resp_term, last_event>>
    /\ UNCHANGED <<procVars, call>>

OnRequestException_abort ==
    /\ fpc' = "raised"
    /\ UNCHANGED <<term_idx, data, all_bills>>

OnRequestException_retry ==
    /\ fpc' = "loop"
    /\ UNCHANGED <<term_idx, data, all_bills>>

\* except requests.exceptions.RequestException: print; continue
OnRequestException ==
    /\ term_idx' = term_idx + 1
    /\ fpc' = "loop"
    /\ UNCHANGED <<data, all_bills>>

\* the first request of a term fails
FirstRequestFails ==
    /\ fpc = "loop"
    /\ term_idx <= NumTerms
    /\ \E s \in ErrorStatuses : responses' = <<s>>
    /\ resp_term' = term_idx
    /\ last_event' = "request"
    /\ OnRequestException
    /\ UNCHANGED <<api_key, page>>
    /\ UNCHANGED <<procVars, call>>

\* the first request of a term succeeds, the body has no 'results' key
FirstRequestNoResults ==
    /\ fpc = "loop"
    /\ term_idx <= NumTerms
    /\ \E b \in Bodies(search_terms[term_idx], 1) :
        /\ ~b.results_key
        /\ data' = b
    /\ responses' = <<200>>
    /\ resp_term' = term_idx
    /\ last_event' = "request"
    /\ fpc' = "sleep_term"
    /\ UNCHANGED <<api_key, term_idx, page, all_bills>>
    /\ UNCHANGED <<procVars, call>>

\* the first request of a term succeeds with results
FirstRequestResults ==
    /\ fpc = "loop"
    /\ term_idx <= NumTerms
    /\ \E b \in Bodies(search_terms[term_idx], 1) :
        /\ b.results_key
        /\ data' = b
        /\ all_bills' = all_bills \o b.results
    /\ responses' = <<200>>
    /\ resp_term' = term_idx
    /\ last_event' = "request"
    /\ page' = 1
    /\ fpc' = "while"
    /\ UNCHANGED <<api_key, term_idx>>
    /\ UNCHANGED <<procVars, call>>

MorePages_one_more == data.next /\ page <= PageLimit

\* while 'next' in data and data['next'] and page < 5
MorePages == data.next /\ page < PageLimit

\* the request of a continuation page fails
NextPageFails ==
    /\ fpc = "while"
    /\ MorePages
    /\ \E s \in ErrorStatuses : responses' = Append(responses, s)
    /\ last_event' = "request"
    /\ page' = page + 1
    /\ OnRequestException
    /\ UNCHANGED <<api_key, resp_term>>
    /\ UNCHANGED <<procVars, call>>

\* the request of a continuation page succeeds
NextPageOk ==
    /\ fpc = "while"
    /\ MorePages
    /\ page' = page + 1
    /\ \E b \in Bodies(search_terms[term_idx], page + 1) :
        /\ data' = b
        /\ all_bills' = IF b.results_key THEN all_bills \o b.results ELSE all_bills
    /\ responses' = Append(responses, 200)
    /\ last_event' = "request"
    /\ fpc' = "sleep_page"
    /\ UNCHANGED <<api_key, term_idx, resp_term>>
    /\ UNCHANGED <<procVars, call>>

\* time.sleep(0.5) at the end of the pagination loop's body
SleepPage ==
    /\ fpc = "sleep_page"
    /\ last_event' = "sleep"
    /\ fpc' = "while"
    /\ UNCHANGED <<api_key, term_idx, page, data, all_bills, responses, resp_term>>
    /\ UNCHANGED <<procVars, call>>

\* the pagination loop ends
EndPages ==
    /\ fpc = "while"
    /\ ~MorePages
    /\ fpc' = "sleep_term"
    /\ UNCHANGED <<api_key, term_idx, page, data, all_bills, responses, resp_term, last_event>>
    /\ UNCHANGED <<procVars, call>>

\* time.sleep(1) at the end of the term loop's body
SleepTerm ==
    /\ fpc = "sleep_term"
    /\ last_event' = "sleep"
    /\ term_idx' = term_idx + 1
    /\ fpc' = "loop"
    /\ UNCHANGED <<api_key, page, data, all_bills, responses, resp_term>>
    /\ UNCHANGED <<procVars, call>>

\* the term loop is exhausted: return all_bills
ReturnBills ==
    /\ fpc = "loop"
    /\ term_idx > NumTerms
    /\ fpc' = "returned"
    /\ UNCHANGED <<api_key, term_idx, page, data, all_bills, responses, resp_term, last_event>>
    /\ UNCHANGED <<procVars, call>>

FetchNext ==
    \/ CheckApiKey
    \/ MissingApiKey
    \/ FirstRequestFails
    \/ FirstRequestNoResults
    \/ FirstRequestResults
    \/ NextPageFails
    \/ NextPageOk
    \/ SleepPage
    \/ EndPages
    \/ SleepTerm
    \/ ReturnBills

----------------------------------------------------------------------------
(* is_ai_related *)

ai_terms == <<
    <<"a","r","t","i","f","i","c","i","a","l"," ","i","n","t","e","l","l","i","g","e","n","c","e">>, <<"a","i"," ","s","y","s","t","e","m">>, <<"a","i"," ","t","e","c","h","n","o","l","o","g","y">>, <<"a","i"," ","m","o","d","e","l">>,
    <<"m","a","c","h","i","n","e"," ","l","e","a","r","n","i","n","g">>, <<"d","e","e","p"," ","l","e","a","r","n","i","n","g">>, <<"n","e","u","r","a","l"," ","n","e","t","w","o","r","k">>,
    <<"a","u","t","o","m","a","t","e","d"," ","d","e","c","i","s","i","o","n">>, <<"a","l","g","o","r","i","t","h","m","i","c"," ","d","e","c","i","s","i","o","n">>, <<"a","l","g","o","r","i","t","h","m"," ","b","i","a","s">>,
    <<"c","h","a","t","b","o","t">>, <<"b","o","t"," ","d","i","s","c","l","o","s","u","r","e">>, <<"c","o","n","v","e","r","s","a","t","i","o","n","a","l"," ","a","i">>,
    <<"d","e","e","p","f","a","k","e">>, <<"s","y","n","t","h","e","t","i","c"," ","m","e","d","i","a">>, <<"c","o","m","p","u","t","e","r","-","g","e","n","e","r","a","t","e","d">>,
    <<"g","e","n","e","r","a","t","i","v","e"," ","a","i">>, <<"l","a","r","g","e"," ","l","a","n","g","u","a","g","e"," ","m","o","d","e","l">>, <<"l","l","m">> >>

exclude_terms == <<
    <<"a","g","r","i","c","u","l","t","u","r","e">>, <<"f","a","r","m","i","n","g">>, <<"c","r","o","p">>, <<"l","i","v","e","s","t","o","c","k">>, <<"f","a","r","m"," ","b","i","l","l">>,
    <<"a","m","e","r","i","c","a","n"," ","i","n","d","i","a","n">>, <<"t","r","i","b","a","l">>, <<"n","a","t","i","v","e"," ","a","m","e","r","i","c","a","n">>,
    <<"a","i","r"," ","q","u","a","l","i","t","y">>, <<"a","v","i","a","t","i","o","n">>, <<"a","i","r","c","r","a","f","t">> >>

\* text = (title + " " + abstract).lower()
FilterText(title, abstract) == Lower(title \o <<" ">> \o abstract)

is_ai_related_no_exclusion(title, abstract) ==
    AnyIn(FilterText(title, abstract), ai_terms)

is_ai_related(title, abstract) ==
    LET text == FilterText(title, abstract) IN
    IF ~AnyIn(text, ai_terms) THEN FALSE
    ELSE IF AnyIn(text, exclude_terms) THEN FALSE
    ELSE TRUE

----------------------------------------------------------------------------
(* get_bill_status_category *)

\* actions[i].get('description', '')
Description(action) == action.description

get_bill_status_category_committee_first(actions) ==
    IF actions = <<>> THEN "Introduced"
    ELSE LET latest_action == Lower(Description(actions[1])) IN
         IF AnyIn(latest_action, <<<<"c","o","m","m","i","t","t","e","e">>, <<"r","e","f","e","r","r","e","d">>>>) THEN "In Committee"
         ELSE IF AnyIn(latest_action, <<<<"s","i","g","n","e","d">>, <<"e","n","a","c","t","e","d">>, <<"e","f","f","e","c","t","i","v","e">>, <<"l","a","w">>>>) THEN "Enacted"
         ELSE IF AnyIn(latest_action, <<<<"p","a","s","s","e","d">>, <<"a","p","p","r","o","v","e","d">>>>) THEN "Passed"
         ELSE IF AnyIn(latest_action, <<<<"f","a","i","l","e","d">>, <<"d","e","f","e","a","t","e","d">>, <<"w","i","t","h","d","r","a","w","n">>>>) THEN "Failed/Withdrawn"
         ELSE IF AnyIn(latest_action, <<<<"v","e","t","o","e","d">>>>) THEN "Vetoed"
         ELSE "Active"

get_bill_status_category(actions) ==
    IF actions = <<>> THEN "Introduced"
    ELSE LET latest_action == Lower(Description(actions[1])) IN
         IF AnyIn(latest_action, <<<<"s","i","g","n","e","d">>, <<"e","n","a","c","t","e","d">>, <<"e","f","f","e","c","t","i","v","e">>, <<"l","a","w">>>>) THEN "Enacted"
         ELSE IF AnyIn(latest_action, <<<<"p","a","s","s","e","d">>, <<"a","p","p","r","o","v","e","d">>>>) THEN "Passed"
         ELSE IF AnyIn(latest_action, <<<<"c","o","m","m","i","t","t","e","e">>, <<"r","e","f","e","r","r","e","d">>>>) THEN "In Committee"
         ELSE IF AnyIn(latest_action, <<<<"f","a","i","l","e","d">>, <<"d","e","f","e","a","t","e","d">>, <<"w","i","t","h","d","r","a","w","n">>>>) THEN "Failed/Withdrawn"
         ELSE IF AnyIn(latest_action, <<<<"v","e","t","o","e","d">>>>) THEN "Vetoed"
         ELSE "Active"

----------------------------------------------------------------------------
(* datetime.fromisoformat, for the formats datetime.isoformat() emits:     *)
(* YYYY-MM-DD[*HH[:MM[:SS[.fff[fff]]]][+HH:MM[:SS[.ffffff]]]]               *)

AllDigits(s) == \A i \in 1..Len(s) : IsDigit(s[i])

RECURSIVE Number(_)
\* int(s) of a digit string
Number(s) == IF s = <<>> THEN 0 ELSE 10 * Number(SubSeq(s, 1, Len(s) - 1)) + DigitVal(Last(s))

IsLeap(y) == y % 4 = 0 /\ (y % 100 # 0 \/ y % 400 = 0)

DaysInMonth(y, m) ==
    IF m = 2 THEN (IF IsLeap(y) THEN 29 ELSE 28)
    ELSE IF m \in {4, 6, 9, 11} THEN 30 ELSE 31

\* the date part: ten characters YYYY-MM-DD naming a day of the calendar
ValidDate(d) ==
    /\ Len(d) = 10
    /\ AllDigits(SubSeq(d, 1, 4)) /\ d[5] = "-"
    /\ AllDigits(SubSeq(d, 6, 7)) /\ d[8] = "-"
    /\ AllDigits(SubSeq(d, 9, 10))
    /\ LET y == Number(SubSeq(d, 1, 4))
           m == Number(SubSeq(d, 6, 7))
           dd == Number(SubSeq(d, 9, 10))
       IN /\ y >= 1
          /\ m \in 1..12
          /\ dd >= 1 /\ dd <= DaysInMonth(y, m)

\* HH[:MM[:SS[.fff[fff]]]]
ValidClock(t) ==
    /\ Len(t) \in {2, 5, 8, 12, 15}
    /\ AllDigits(SubSeq(t, 1, 2)) /\ Number(SubSeq(t, 1, 2)) < 24
    /\ Len(t) >= 5 =>
          t[3] = ":" /\ AllDigits(SubSeq(t, 4, 5)) /\ Number(SubSeq(t, 4, 5)) < 60
    /\ Len(t) >= 8 =>
          t[6] = ":" /\ AllDigits(SubSeq(t, 7, 8)) /\ Number(SubSeq(t, 7, 8)) < 60
    /\ Len(t) >= 12 => t[9] = "." /\ AllDigits(SubSeq(t, 10, Len(t)))

\* the time part: a clock, then optionally a sign and a UTC offset
ValidTime(t) ==
    LET signs == {i \in 1..Len(t) : t[i] \in {"+", "-"}} IN
    IF signs = {} THEN ValidClock(t)
    ELSE LET k == CHOOSE i \in signs : \A j \in signs : i <= j
             off == SubSeq(t, k + 1, Len(t))
         IN /\ ValidClock(SubSeq(t, 1, k - 1))
            /\ Len(off) \in {5, 8, 15}
            /\ ValidClock(off)

\* fromisoformat(s) returns a datetime (otherwise it raises ValueError)
IsoParses(s) ==
    /\ Len(s) >= 10
    /\ ValidDate(SubSeq(s, 1, 10))
    /\ Len(s) > 10 => ValidTime(SubSeq(s, 12, Len(s)))

\* .year of the datetime parsed
IsoYear(s) == Number(SubSeq(s, 1, 4))

\* the Year column: '' (no year) or an int, as an empty or a one-element tuple
NoYear == <<>>

YearOf_with_fallback(created_at) ==
    IF created_at = <<>> THEN NoYear
    ELSE LET iso == Replace(created_at, "Z", <<"+","0","0",":","0","0">>) IN
         IF IsoParses(iso) THEN <<IsoYear(iso)>>
         ELSE IF Len(created_at) >= 4 /\ AllDigits(SubSeq(created_at, 1, 4))
              THEN <<Number(SubSeq(created_at, 1, 4))>>
              ELSE NoYear

\* year = ''; if created_at: try: year = fromisoformat(...).year except: pass
YearOf(created_at) ==
    IF created_at = <<>> THEN NoYear
    ELSE LET iso == Replace(created_at, "Z", <<"+","0","0",":","0","0">>) IN
         IF IsoParses(iso) THEN <<IsoYear(iso)>> ELSE NoYear

----------------------------------------------------------------------------
(* process_legislation_data *)

\* the (jurisdiction name, identifier) pair of a raw record
Pair(bill) == <<bill.jurisdiction.name, bill.identifier>>

\* bill_key = f"{jurisdiction name}_{identifier}"
BillKey(bill) == bill.jurisdiction.name \o <<"_">> \o bill.identifier

\* abstract = bill['abstracts'][0].get('abstract', '') if there is one, else ""
AbstractOf(bill) == IF bill.abstracts # <<>> THEN bill.abstracts[1].abstract ELSE <<>>

\* the processed row of a bill (the columns State, Bill_ID, Title,
\* Status_Category, Latest_Action, Year and Created)
ProcessedBill(bill) ==
    [ State           |-> bill.jurisdiction.name,
      Bill_ID         |-> bill.identifier,
      Title           |-> bill.title,
      Status_Category |-> get_bill_status_category(bill.actions),
      Latest_Action   |-> IF bill.actions # <<>> THEN Description(bill.actions[1]) ELSE <<>>,
      Year            |-> YearOf(bill.created_at),
      Created         |-> bill.created_at ]

\* -x['Year'] if x['Year'] else 0
YearKey(row) == IF row.Year # NoYear THEN 0 - row.Year[1] ELSE 0

\* the sort key (YearKey, State, Bill_ID) of x is less than that of y
RowLess(x, y) ==
    \/ YearKey(x) < YearKey(y)
    \/ /\ YearKey(x) = YearKey(y)
       /\ \/ StrLess(x.State, y.State)
          \/ x.State = y.State /\ StrLess(x.Bill_ID, y.Bill_ID)

\* Total_Bills, descending
TotalMore(x, y) == x.Total_Bills > y.Total_Bills

RECURSIVE InsertRow(_, _)
\* x placed after the rows of the sorted s whose key is not greater than its key
InsertRow(x, s) ==
    IF s = <<>> THEN <<x>>
    ELSE IF RowLess(x, Head(s)) THEN <<x>> \o s
    ELSE <<Head(s)>> \o InsertRow(x, Tail(s))

RECURSIVE SortRows(_)
\* processed_data.sort(key=...): stable
SortRows(s) ==
    IF s = <<>> THEN <<>>
    ELSE InsertRow(Last(s), SortRows(SubSeq(s, 1, Len(s) - 1)))

RECURSIVE InsertSummary(_, _)
InsertSummary(x, s) ==
    IF s = <<>> THEN <<x>>
    ELSE IF TotalMore(x, Head(s)) THEN <<x>> \o s
    ELSE <<Head(s)>> \o InsertSummary(x, Tail(s))

RECURSIVE SortSummary(_)
\* summary_data.sort(key=Total_Bills, reverse=True): stable
SortSummary(s) ==
    IF s = <<>> THEN <<>>
    ELSE InsertSummary(Last(s), SortSummary(SubSeq(s, 1, Len(s) - 1)))

RECURSIVE SortedStrings(_)
\* sorted(keys) of a set of distinct strings
SortedStrings(S) ==
    IF S = {} THEN <<>>
    ELSE LET m == CHOOSE x \in S : \A y \in S : y = x \/ StrLess(x, y)
         IN <<m>> \o SortedStrings(S \ {m})

\* the values of Status_Category
Statuses == {"Introduced", "Enacted", "Passed", "In Committee", "Failed/Withdrawn", "Vetoed", "Active"}

\* number of rows of a state whose status is among the given ones
CountInState(rows, state, statuses) ==
    Cardinality({i \in 1..Len(rows) : rows[i].State = state /\ rows[i].Status_Category \in statuses})

\* number of rows of a year whose status is among the given ones
CountInYear(rows, y, statuses) ==
    Cardinality({i \in 1..Len(rows) : rows[i].Year = <<y>> /\ rows[i].Status_Category \in statuses})

FrameworkStatus_enacted_or_three(enacted, total) ==
    IF enacted >= 3 THEN "Comprehensive"
    ELSE IF enacted >= 1 \/ total >= 3 THEN "Some Activity"
    ELSE "Minimal"

\* 'Comprehensive' if Enacted >= 3 else 'Some Activity' if Total_Bills >= 2 else 'Minimal'
FrameworkStatus(enacted, total) ==
    IF enacted >= 3 THEN "Comprehensive"
    ELSE IF total >= 2 THEN "Some Activity"
    ELSE "Minimal"

\* the summary row of one state (the columns State, Total_Bills, Enacted,
\* Active_Pending, Failed_Vetoed and Framework_Status)
SummaryRow(state, rows) ==
    LET total == CountInState(rows, state, Statuses)
        enacted == CountInState(rows, state, {"Enacted"})
        failed == CountInState(rows, state, {"Failed/Withdrawn", "Vetoed"})
    IN [ State            |-> state,
         Total_Bills      |-> total,
         Enacted          |-> enacted,
         Active_Pending   |-> total - enacted - failed,
         Failed_Vetoed    |-> failed,
         Framework_Status |-> FrameworkStatus(enacted, total) ]

\* summary_data: one row per state in sorted order, then sorted by Total_Bills
SummaryData(rows) ==
    LET states == SortedStrings({rows[i].State : i \in 1..Len(rows)})
    IN SortSummary([i \in 1..Len(states) |-> SummaryRow(states[i], rows)])

\* `year >= 2019`
TrendFloor == 2019

RECURSIVE SortedNumbers(_)
SortedNumbers(S) ==
    IF S = {} THEN <<>>
    ELSE LET m == CHOOSE x \in S : \A y \in S : x <= y
         IN <<m>> \o SortedNumbers(S \ {m})

\* trend_data: one row per year from 2019 on, ascending (the columns Year,
\* Bills_Introduced and Bills_Enacted)
TrendData(rows) ==
    LET years == SortedNumbers({rows[i].Year[1] : i \in {j \in 1..Len(rows) :
                     rows[j].Year # NoYear /\ rows[j].Year[1] >= TrendFloor}})
        TrendRow(y) ==
            [ Year             |-> y,
              Bills_Introduced |-> CountInYear(rows, y, Statuses),
              Bills_Enacted    |-> CountInYear(rows, y, {"Enacted"}) ]
    IN [i \in 1..Len(years) |-> TrendRow(years[i])]

BillsCsv == "data/ai_legislation_comprehensive.csv"
SummaryCsv == "data/ai_legislation_summary.csv"
TrendsCsv == "data/ai_legislation_trends.csv"

fieldnames == <<"State", "Bill_ID", "Title", "Status_Category", "Latest_Action", "Category",
                "Session", "Year", "Created", "Updated", "URL", "Abstract", "Last_Checked">>
summary_fieldnames == <<"State", "Total_Bills", "Enacted", "Active_Pending", "Failed_Vetoed",
                        "Categories", "Years_Active", "Framework_Status">>
trend_fieldnames == <<"Year", "Bills_Introduced", "Bills_Enacted", "Enactment_Rate">>

\* csv.DictWriter: writeheader(), writerows(rows), on a file opened with 'w'
CsvFile(header, rows) == [header |-> header, rows |-> rows]

\* no file written
NoFiles == <<>>

(* The raw records the fetch may return *)

\* (jurisdiction name, identifier) pairs; the second and the last give the same key
Pairs == { <<<<"A">>, <<"1">>>>, <<<<"A">>, <<"B","_","1">>>>, <<<<"A">>, <<"2">>>>, <<<<"A","_","B">>, <<"1">>>> }

\* title, abstracts, actions and created_at of a record
Profiles == {
    [ title |-> <<"A","I"," ","s","y","s","t","e","m","s">>, abstracts |-> <<[abstract |-> <<"H","i","r","i","n","g">>]>>,
      actions |-> <<[description |-> <<"S","i","g","n","e","d"," ","b","y"," ","G","o","v","e","r","n","o","r">>], [description |-> <<"R","e","f","e","r","r","e","d"," ","t","o"," ","C","o","m","m","i","t","t","e","e">>]>>,
      created_at |-> <<"2","0","2","4","-","0","3","-","0","1","T","0","0",":","0","0",":","0","0","Z">> ],
    [ title |-> <<"L","L","M">>, abstracts |-> <<>>,
      actions |-> <<[description |-> <<"R","e","f","e","r","r","e","d"," ","t","o"," ","C","o","m","m","i","t","t","e","e">>], [description |-> <<"S","i","g","n","e","d">>]>>,
      created_at |-> <<"2","0","2","3","x","y","z">> ],
    [ title |-> <<"D","e","e","p","f","a","k","e">>, abstracts |-> <<[abstract |-> <<"m","e","d","i","a">>]>>,
      actions |-> <<[description |-> <<"V","e","t","o","e","d">>]>>,
      created_at |-> <<>> ],
    [ title |-> <<"C","r","o","p"," ","i","n","s","u","r","a","n","c","e">>, abstracts |-> <<[abstract |-> <<"m","a","c","h","i","n","e"," ","l","e","a","r","n","i","n","g">>]>>,
      actions |-> <<>>,
      created_at |-> <<"2","0","1","8","-","1","2","-","3","1">> ] }

RawBills ==
    { [ jurisdiction |-> [name |-> k[1]], identifier |-> k[2], title |-> p.title,
        abstracts |-> p.abstracts, actions |-> p.actions, created_at |-> p.created_at ] :
      k \in Pairs, p \in Profiles }

RECURSIVE SeqsUpTo(_, _)
\* the sequences over S of length at most n
SeqsUpTo(S, n) ==
    IF n = 0 THEN {<<>>}
    ELSE LET shorter == SeqsUpTo(S, n - 1)
         IN shorter \cup {Append(s, x) : s \in {t \in shorter : Len(t) = n - 1}, x \in S}

ProcInit ==
    /\ ppc = "start"
    /\ bills = <<>>
    /\ bidx = 0
    /\ seen_bills = {}
    /\ processed_data = <<>>
    /\ filtered_count = 0
    /\ files = NoFiles

\* bills = fetch_ai_legislation_comprehensive() returns a list
FetchReturns ==
    /\ ppc = "start"
    /\ bills' \in SeqsUpTo(RawBills, MaxBills)
    /\ ppc' = "fetched"
    /\ UNCHANGED <<bidx, seen_bills, processed_data, filtered_count, files>>
    /\ UNCHANGED <<fetchVars, call>>

\* the fetch raises ValueError (no API key), which nothing catches
FetchRaises ==
    /\ ppc = "start"
    /\ ppc' = "raised"
    /\ UNCHANGED <<bills, bidx, seen_bills, processed_data, filtered_count, files>>
    /\ UNCHANGED <<fetchVars, call>>

NoBillsFound_headers_only ==
    /\ ppc = "fetched"
    /\ bills = <<>>
    /\ files' = (BillsCsv :> CsvFile(fieldnames, <<>>))
                @@ (SummaryCsv :> CsvFile(summary_fieldnames, <<>>))
                @@ (TrendsCsv :> CsvFile(trend_fieldnames, <<>>))
    /\ ppc' = "done"
    /\ UNCHANGED <<bills, bidx, seen_bills, processed_data, filtered_count>>
    /\ UNCHANGED <<fetchVars, call>>

\* if not bills: print("No bills found"); return
NoBillsFound ==
    /\ ppc = "fetched"
    /\ bills = <<>>
    /\ ppc' = "done"
    /\ UNCHANGED <<bills, bidx, seen_bills, processed_data, filtered_count, files>>
    /\ UNCHANGED <<fetchVars, call>>

\* processed_data = [], seen_bills = set(), filtered_count = 0; enter the loop
StartProcessing ==
    /\ ppc = "fetched"
    /\ bills # <<>>
    /\ processed_data' = <<>>
    /\ seen_bills' = {}
    /\ filtered_count' = 0
    /\ bidx' = 1
    /\ ppc' = "loop"
    /\ UNCHANGED <<bills, files>>
    /\ UNCHANGED <<fetchVars, call>>

\* if bill_key in seen_bills: continue
SkipDuplicate ==
    /\ ppc = "loop"
    /\ bidx <= Len(bills)
    /\ BillKey(bills[bidx]) \in seen_bills
    /\ bidx' = bidx + 1
    /\ UNCHANGED <<ppc, bills, seen_bills, processed_data, filtered_count, files>>
    /\ UNCHANGED <<fetchVars, call>>

\* a new key, and is_ai_related rejects the bill: filtered_count += 1; continue
FilterOut ==
    /\ ppc = "loop"
    /\ bidx <= Len(bills)
    /\ BillKey(bills[bidx]) \notin seen_bills
    /\ seen_bills' = seen_bills \cup {BillKey(bills[bidx])}
    /\ ~is_ai_related(bills[bidx].title, AbstractOf(bills[bidx]))
    /\ filtered_count' = filtered_count + 1
    /\ bidx' = bidx + 1
    /\ UNCHANGED <<ppc, bills, processed_data, files>>
    /\ UNCHANGED <<fetchVars, call>>

\* a new key, and is_ai_related accepts the bill: processed_data.append(...)
AppendProcessed ==
    /\ ppc = "loop"
    /\ bidx <= Len(bills)
    /\ BillKey(bills[bidx]) \notin seen_bills
    /\ seen_bills' = seen_bills \cup {BillKey(bills[bidx])}
    /\ is_ai_related(bills[bidx].title, AbstractOf(bills[bidx]))
    /\ processed_data' = Append(processed_data, ProcessedBill(bills[bidx]))
    /\ bidx' = bidx + 1
    /\ UNCHANGED <<ppc, bills, filtered_count, files>>
    /\ UNCHANGED <<fetchVars, call>>

\* after the loop: sort processed_data, write the three CSV files
WriteOutputs ==
    /\ ppc = "loop"
    /\ bidx > Len(bills)
    /\ LET rows == SortRows(processed_data) IN
        /\ processed_data' = rows
        /\ files' = (BillsCsv :> CsvFile(fieldnames, rows))
                    @@ (SummaryCsv :> CsvFile(summary_fieldnames, SummaryData(rows)))
                    @@ (TrendsCsv :> CsvFile(trend_fieldnames, TrendData(rows)))
    /\ ppc' = "done"
    /\ UNCHANGED <<bills, bidx, seen_bills, filtered_count>>
    /\ UNCHANGED <<fetchVars, call>>

ProcNext ==
    \/ FetchReturns
    \/ FetchRaises
    \/ NoBillsFound
    \/ StartProcessing
    \/ SkipDuplicate
    \/ FilterOut
    \/ AppendProcessed
    \/ WriteOutputs

----------------------------------------------------------------------------
(* Direct calls of is_ai_related and get_bill_status_category *)

RECURSIVE Phrases(_, _)
\* the texts of at most n words of W, joined by single spaces
Phrases(W, n) ==
    IF n = 0 THEN {<<>>}
    ELSE LET shorter == Phrases(W, n - 1)
         IN shorter \cup {IF p = <<>> THEN w ELSE p \o <<" ">> \o w : p \in shorter, w \in W}

TitleWords == {<<"L","L","M">>, <<"A","I">>, <<"M","o","d","e","l">>, <<"m","i","c","r","o","p","r","o","c","e","s","s","o","r">>, <<"t","a","x">>, <<"T","r","i","b","a","l">>}
Titles == Phrases(TitleWords, MaxTitleWords)
Abstracts == Phrases(TitleWords, MaxAbstractWords)

ActionWords == {<<"S","i","g","n","e","d">>, <<"C","o","m","m","i","t","t","e","e">>, <<"P","A","S","S","E","D">>, <<"w","i","t","h","d","r","a","w","n">>, <<"V","e","t","o","e","d">>, <<"r","e","a","d">>}
\* action lists: none, or a first action and at most MaxLaterActions older ones
ActionLists ==
    {<<>>} \cup
    { <<[description |-> d]>> \o later :
        d \in Phrases(ActionWords, MaxDescWords),
        later \in SeqsUpTo({[description |-> w] : w \in ActionWords}, MaxLaterActions) }

NoCall == [fn |-> "none"]

ClassifyInit ==
    call \in
        {[fn |-> "is_ai_related", title |-> t, abstract |-> a, done |-> FALSE, result |-> FALSE] :
            t \in Titles, a \in Abstracts}
        \cup
        {[fn |-> "get_bill_status_category", actions |-> acts, done |-> FALSE, result |-> "None"] :
            acts \in ActionLists}

\* is_ai_related(title, abstract) is called and returns
CallIsAiRelated ==
    /\ call.fn = "is_ai_related"
    /\ ~call.done
    /\ call' = [call EXCEPT !.done = TRUE, !.result = is_ai_related(call.title, call.abstract)]
    /\ UNCHANGED <<fetchVars, procVars>>

\* get_bill_status_category(actions) is called and returns
CallGetBillStatusCategory ==
    /\ call.fn = "get_bill_status_category"
    /\ ~call.done
    /\ call' = [call EXCEPT !.done = TRUE, !.result = get_bill_status_category(call.actions)]
    /\ UNCHANGED <<fetchVars, procVars>>

ClassifyNext ==
    \/ CallIsAiRelated
    \/ CallGetBillStatusCategory

----------------------------------------------------------------------------
(* Specifications *)

\* the parts of the state a specification does not use
FetchIdle ==
    /\ api_key = TRUE
    /\ fpc = "idle"
    /\ term_idx = 1
    /\ page = 0
    /\ data = NoData
    /\ all_bills = <<>>
    /\ responses = <<>>
    /\ resp_term = 0
    /\ last_event = "none"

ProcIdle ==
    /\ ppc = "idle"
    /\ bills = <<>>
    /\ bidx = 0
    /\ seen_bills = {}
    /\ processed_data = <<>>
    /\ filtered_count = 0
    /\ files = NoFiles

\* one run of fetch_ai_legislation_comprehensive
FetchStart == FetchInit /\ ProcIdle /\ call = NoCall
FetchSpec == FetchStart /\ [][FetchNext]_vars

\* the interpreter keeps executing, and every request is answered or fails
FetchLiveSpec == FetchSpec /\ WF_vars(FetchNext)

\* one run of process_legislation_data
Init == ProcInit /\ FetchIdle /\ call = NoCall
Next == ProcNext
Spec == Init /\ [][Next]_vars

\* one call of a classification function
ClassifyStart == ClassifyInit /\ FetchIdle /\ ProcIdle
ClassifySpec == ClassifyStart /\ [][ClassifyNext]_vars

----------------------------------------------------------------------------
(* Properties of the search client *)

\* a request was issued (and answered) in this step
RequestIssued == <<responses, resp_term>>' # <<responses, resp_term>>

\* C5: a request failure other than a 422 or a 429 does not abort the run:
\* the step that receives it moves on to the next term with all_bills intact,
\* all_bills only ever grows by the results of the responses received, and
\* when the function returns a request has been issued for every term.
C5_FailureSkipsOnlyTheTerm ==
    /\ [][(RequestIssued /\ Last(responses') \in {0, 500}) =>
            /\ fpc' = "loop"
            /\ term_idx' = term_idx + 1
            /\ all_bills' = all_bills]_vars
    /\ [][(RequestIssued /\ Last(responses') = 200) =>
            all_bills' = all_bills \o data'.results]_vars
    /\ [][IsPrefix(all_bills, all_bills')]_vars
    /\ [](fpc = "returned" => (resp_term = NumTerms /\ term_idx = NumTerms + 1))
    /\ [](fpc = "raised" => ~api_key)

\* a term was abandoned on a failed continuation page, the records of its
\* earlier pages are kept and the next term is about to be queried
C5_Witness ==
    /\ fpc = "loop"
    /\ resp_term = 1
    /\ term_idx = 2
    /\ Len(responses) >= 2
    /\ Last(responses) = 500
    /\ all_bills = <<RawRecord(search_terms[1], 1)>>

\* C6 (as stated): a term is never abandoned on its first 422 or 429
\* response: when a term has been left, a 422 or 429 among its responses was
\* followed by one more request (the retry).
C6_RetryBeforeAbandon ==
    \A i \in 1..Len(responses) :
        (responses[i] \in {422, 429} /\ term_idx > resp_term) => i < Len(responses)

\* C6 (amended): a 422 or a 429 is handled like every other request failure:
\* no request of the term follows it, and the term is abandoned at once.
C6_NoRetry ==
    \A i \in 1..Len(responses) :
        responses[i] \in {422, 429} =>
            /\ i = Len(responses)
            /\ term_idx = resp_term + 1
            /\ fpc \in {"loop", "returned"}

\* a term was left on a 429 received for its first request
C6_Witness ==
    /\ responses = <<429>>
    /\ resp_term = 1
    /\ term_idx = 2
    /\ fpc = "loop"

\* C9: a sleep separates any two successive requests: no request is issued
\* when the latest I/O call was itself a request.
C9_DelayBetweenRequests == [][RequestIssued => last_event # "request"]_vars

\* C10: at most 5 requests per term; requests of a term are issued only
\* while that term is the current one, the terms are taken in order and none
\* is taken up again; and the fetch ends, having attempted every term.
C10_BoundedSequentialTerminates ==
    /\ [](Len(responses) <= 5)
    /\ [][RequestIssued =>
            /\ resp_term' = term_idx
            /\ \/ resp_term' = resp_term + 1 /\ Len(responses') = 1
               \/ resp_term' = resp_term /\ Len(responses') = Len(responses) + 1]_vars
    /\ [](fpc = "returned" => resp_term = NumTerms)
    /\ (api_key => <>(fpc = "returned"))

\* the fetch returned after a last term that was given a continuation link on
\* every one of its pages
C10_Witness ==
    /\ fpc = "returned"
    /\ resp_term = NumTerms
    /\ responses = <<200, 200, 200, 200, 200>>
    /\ data.next

----------------------------------------------------------------------------
(* Properties of the processing pipeline *)

\* the bills the loop has been through
Handled == 1..(IF bidx - 1 < Len(bills) THEN bidx - 1 ELSE Len(bills))

\* bill i is the first of the list with its (jurisdiction name, identifier) pair
FirstOfPair(i) == \A j \in 1..(i - 1) : Pair(bills[j]) # Pair(bills[i])

\* C1: deduplication keeps exactly the first record of each distinct
\* (jurisdiction name, identifier) pair: as many keys are seen as there are
\* distinct pairs among the bills handled, every first record of a pair that
\* the relevance filter accepts has its row, and no two rows share a pair.
C1_DedupByPair ==
    ppc \in {"loop", "done"} =>
        /\ Cardinality(seen_bills) = Cardinality({Pair(bills[i]) : i \in Handled})
        /\ \A i \in Handled :
              (FirstOfPair(i) /\ is_ai_related(bills[i].title, AbstractOf(bills[i]))) =>
                  \E k \in 1..Len(processed_data) :
                      /\ processed_data[k].State = bills[i].jurisdiction.name
                      /\ processed_data[k].Bill_ID = bills[i].identifier
                      /\ processed_data[k].Title = bills[i].title
        /\ \A k, l \in 1..Len(processed_data) :
              (processed_data[k].State = processed_data[l].State
               /\ processed_data[k].Bill_ID = processed_data[l].Bill_ID) => k = l

\* the rows of the summary file, once written
SummaryRows == IF SummaryCsv \in DOMAIN files THEN files[SummaryCsv].rows ELSE <<>>

\* C4 (as stated): Comprehensive if enacted >= 3, else Some Activity if
\* enacted >= 1 or total >= 3, else Minimal.
C4_TierAsStated ==
    \A i \in 1..Len(SummaryRows) :
        LET r == SummaryRows[i] IN
        r.Framework_Status =
            IF r.Enacted >= 3 THEN "Comprehensive"
            ELSE IF r.Enacted >= 1 \/ r.Total_Bills >= 3 THEN "Some Activity"
            ELSE "Minimal"

\* C4 (amended): Comprehensive if enacted >= 3, else Some Activity if
\* total >= 2, else Minimal; the counts being those of the rows written to
\* the per-bill file.
C4_TierByTotal ==
    \A i \in 1..Len(SummaryRows) :
        LET r == SummaryRows[i]
            written == files[BillsCsv].rows
            inState == {k \in 1..Len(written) : written[k].State = r.State}
        IN /\ r.Total_Bills = Cardinality(inState)
           /\ r.Enacted = Cardinality({k \in inState : written[k].Status_Category = "Enacted"})
           /\ r.Framework_Status =
                 IF r.Enacted >= 3 THEN "Comprehensive"
                 ELSE IF r.Total_Bills >= 2 THEN "Some Activity"
                 ELSE "Minimal"

\* the summary has a jurisdiction with one bill, enacted, rated Minimal, and
\* one with two bills, none enacted, rated Some Activity
C4_Witness ==
    /\ ppc = "done"
    /\ \E i, j \in 1..Len(SummaryRows) :
        /\ SummaryRows[i].Total_Bills = 1
        /\ SummaryRows[i].Enacted = 1
        /\ SummaryRows[i].Framework_Status = "Minimal"
        /\ SummaryRows[j].Total_Bills = 2
        /\ SummaryRows[j].Enacted = 0
        /\ SummaryRows[j].Framework_Status = "Some Activity"

\* the three tables are written, each with its header row and no data row
HeadersOnly ==
    /\ DOMAIN files = {BillsCsv, SummaryCsv, TrendsCsv}
    /\ files[BillsCsv] = CsvFile(fieldnames, <<>>)
    /\ files[SummaryCsv] = CsvFile(summary_fieldnames, <<>>)
    /\ files[TrendsCsv] = CsvFile(trend_fieldnames, <<>>)

\* C7 (as stated): in both empty-result conditions the run completes and
\* the three tables are written with their header and no data row.
C7_HeadersInBothCases ==
    (ppc = "done" /\ (bills = <<>> \/ processed_data = <<>>)) => HeadersOnly

\* C7 (amended): when bills were fetched and none survives the filter, the
\* run completes with the three header-only tables; when no bill was
\* fetched, it completes without error having written no table at all.
C7_HeadersOnlyWhenAllFiltered ==
    /\ (ppc = "done" /\ bills = <<>>) => files = NoFiles
    /\ (ppc = "done" /\ bills # <<>> /\ processed_data = <<>>) => HeadersOnly

\* the run is over, no bill was fetched
C7_Witness == ppc = "done" /\ bills = <<>> /\ files = NoFiles

\* a run over MaxBills bills, all rejected by the filter, wrote header-only tables
C7_WitnessFiltered ==
    ppc = "done" /\ Len(bills) = MaxBills /\ filtered_count = MaxBills /\ HeadersOnly

HasYearPrefix(s) == Len(s) >= 4 /\ AllDigits(SubSeq(s, 1, 4))

\* C8 (as stated): an ISO timestamp yields its year; failing that, a value
\* whose first 4 characters are digits yields that number; only a value
\* failing both yields no year.
C8_YearFallback ==
    \A k \in 1..Len(processed_data) :
        LET r == processed_data[k] IN
        r.Year = IF HasYearPrefix(r.Created) THEN <<Number(SubSeq(r.Created, 1, 4))>> ELSE NoYear

\* C8 (amended): an ISO timestamp (optionally ending in "Z") yields its
\* calendar year; every other value, "2023xyz" and the empty string
\* included, yields no year: there is no fallback to the first 4 characters.
C8_YearOnlyFromIso ==
    \A k \in 1..Len(processed_data) :
        LET r == processed_data[k] IN
        /\ r.Created = <<"2","0","2","4","-","0","3","-","0","1","T","0","0",":","0","0",":","0","0","Z">> => r.Year = <<2024>>
        /\ r.Created \in {<<>>, <<"2","0","2","3","x","y","z">>} => r.Year = NoYear
        /\ r.Year # NoYear =>
              /\ Len(r.Created) >= 10
              /\ r.Created[5] = "-" /\ r.Created[8] = "-"
              /\ HasYearPrefix(r.Created)
              /\ r.Year = <<Number(SubSeq(r.Created, 1, 4))>>

\* rows were made of a "2023xyz" record, an ISO record and a record with no timestamp
C8_Witness ==
    /\ \E k \in 1..Len(processed_data) :
          processed_data[k].Created = <<"2","0","2","3","x","y","z">> /\ processed_data[k].Year = NoYear
    /\ \E k \in 1..Len(processed_data) :
          processed_data[k].Created = <<"2","0","2","4","-","0","3","-","0","1","T","0","0",":","0","0",":","0","0","Z">> /\ processed_data[k].Year = <<2024>>
    /\ \E k \in 1..Len(processed_data) :
          processed_data[k].Created = <<>> /\ processed_data[k].Year = NoYear

----------------------------------------------------------------------------
(* Properties of the classification functions *)

\* the text the filter looks at contains one of the keywords
Mentions(title, abstract, keywords) ==
    \E i \in 1..Len(keywords) :
        Contains(Lower(title \o <<" ">> \o abstract), keywords[i])

\* C2: is_ai_related accepts iff the lower-cased text of title and abstract
\* contains an inclusion keyword and no exclusion keyword; a text with both
\* is rejected.
C2_InclusionAndNoExclusion ==
    (call.fn = "is_ai_related" /\ call.done) =>
        /\ call.result =
              (/\ Mentions(call.title, call.abstract, ai_terms)
               /\ ~Mentions(call.title, call.abstract, exclude_terms))
        /\ (Mentions(call.title, call.abstract, ai_terms)
            /\ Mentions(call.title, call.abstract, exclude_terms)) => call.result = FALSE

\* a call whose text holds an inclusion and an exclusion keyword returned False
C2_Witness ==
    /\ call.fn = "is_ai_related"
    /\ call.done
    /\ Mentions(call.title, call.abstract, ai_terms)
    /\ Mentions(call.title, call.abstract, exclude_terms)
    /\ call.result = FALSE

\* a call accepted a text whose keyword spans the title and the abstract
C2_WitnessAccept ==
    /\ call.fn = "is_ai_related"
    /\ call.done
    /\ call.title = <<"A","I">>
    /\ call.abstract = <<"M","o","d","e","l">>
    /\ call.result = TRUE

\* the lower-cased description of the first action contains one of the words
FirstSays(actions, words) ==
    \E w \in words : Contains(Lower(actions[1].description), w)

EnactedWords == {<<"s","i","g","n","e","d">>, <<"e","n","a","c","t","e","d">>, <<"e","f","f","e","c","t","i","v","e">>, <<"l","a","w">>}
PassedWords == {<<"p","a","s","s","e","d">>, <<"a","p","p","r","o","v","e","d">>}
CommitteeWords == {<<"c","o","m","m","i","t","t","e","e">>, <<"r","e","f","e","r","r","e","d">>}
FailedWords == {<<"f","a","i","l","e","d">>, <<"d","e","f","e","a","t","e","d">>, <<"w","i","t","h","d","r","a","w","n">>}
VetoedWords == {<<"v","e","t","o","e","d">>}

\* C3: the status is that of the first action alone, the first match in the
\* order Enacted, Passed, In Committee, Failed/Withdrawn, Vetoed; Active when
\* nothing matches; Introduced for an empty list.
C3_StatusPriority ==
    (call.fn = "get_bill_status_category" /\ call.done) =>
        LET a == call.actions
            r == call.result
        IN IF a = <<>> THEN r = "Introduced"
           ELSE /\ r = "Enacted" <=> FirstSays(a, EnactedWords)
                /\ r = "Passed" <=> (~FirstSays(a, EnactedWords) /\ FirstSays(a, PassedWords))
                /\ r = "In Committee" <=>
                      (/\ ~FirstSays(a, EnactedWords \cup PassedWords)
                       /\ FirstSays(a, CommitteeWords))
                /\ r = "Failed/Withdrawn" <=>
                      (/\ ~FirstSays(a, EnactedWords \cup PassedWords \cup CommitteeWords)
                       /\ FirstSays(a, FailedWords))
                /\ r = "Vetoed" <=>
                      (/\ ~FirstSays(a, EnactedWords \cup PassedWords \cup CommitteeWords
                                          \cup FailedWords)
                       /\ FirstSays(a, VetoedWords))
                /\ r = "Active" <=>
                      ~FirstSays(a, EnactedWords \cup PassedWords \cup CommitteeWords
                                      \cup FailedWords \cup VetoedWords)
                /\ r = get_bill_status_category(<<a[1]>>)

\* a call whose first action names both a signature and a committee, and
\* whose older action is a veto, returned Enacted
C3_Witness ==
    /\ call.fn = "get_bill_status_category"
    /\ call.done
    /\ Len(call.actions) = 2
    /\ FirstSays(call.actions, EnactedWords)
    /\ FirstSays(call.actions, CommitteeWords)
    /\ call.actions[2].description = <<"V","e","t","o","e","d">>
    /\ call.result = "Enacted"

====
